---- MODULE Spec2Model ----
(***************************************************************************)
(* Model of pyrecdp/primitives/document/reader.py: the file based readers  *)
(* (FileBaseReader.setup / load and the merge of the per unit documents)   *)
(* and the directory orchestrator read_from_directory with its thread pool.*)
(*                                                                         *)
(* A text is a sequence of one-character strings.  A Document is a record  *)
(* [text, metadata].  A Path is a record [dirs, name, suffix].             *)
(***************************************************************************)
EXTENDS Integers, Sequences, FiniteSets, TLC

\* ------------------------------------------------------------------ bounds
MaxLen == 2          \* longest unit text drawn for FileBaseReader.load
MaxUnits == 2        \* most units load_file returns in the load specification
MaxInputFiles == 2   \* longest input_files list
MaxDirs == 2         \* longest input_dirs list
MaxWorkers == 2      \* largest explicit max_concurrency

\* --------------------------------------------------------------- characters
NL == "\n"
SP == " "
Upper == {"A"}
Lower == {"b"}
Digit == {"1"}
White == {SP, NL}
Chars == Upper \cup Lower \cup Digit \cup {SP}

isalpha(c) == c \in Upper \cup Lower
isupper(c) == c \in Upper
isspace(c) == c \in White

RECURSIVE lstrip(_)
lstrip(s) == IF s # <<>> /\ isspace(Head(s)) THEN lstrip(Tail(s)) ELSE s

RECURSIVE rstrip(_)
rstrip(s) ==
    IF s # <<>> /\ isspace(s[Len(s)]) THEN rstrip(SubSeq(s, 1, Len(s) - 1)) ELSE s

\* str.strip()
strip(s) == rstrip(lstrip(s))

\* the while loop of firstAlphaIsUppercase, from index i (1-based here)
RECURSIVE firstAlphaFrom(_, _)
firstAlphaFrom(word, i) ==
    IF i > Len(word) THEN FALSE
    ELSE IF isalpha(word[i]) THEN isupper(word[i])
    ELSE firstAlphaFrom(word, i + 1)

firstAlphaIsUppercase(word) == firstAlphaFrom(word, 1)

\* ------------------------------------------------------------------ readers
Classes == {"PDFReader", "DocxReader", "ImageReader", "AudioReader"}

system_requirements(cls) ==
    CASE cls = "ImageReader" -> <<"tesseract-ocr">>
      [] cls = "AudioReader" -> <<"ffmpeg">>
      [] OTHER -> <<>>

requirements(cls) ==
    CASE cls = "PDFReader" -> <<"pypdf">>
      [] cls = "DocxReader" -> <<"python-docx">>
      [] cls = "ImageReader" -> <<"pillow", "pytesseract">>
      [] cls = "AudioReader" -> <<"openai-whisper">>

default_file_readers ==
    [e \in {".pdf", ".docx", ".jpg", ".jpeg", ".png", ".mp3", ".wav", ".flac"} |->
        CASE e = ".pdf" -> "PDFReader"
          [] e = ".docx" -> "DocxReader"
          [] e \in {".jpg", ".jpeg", ".png"} -> "ImageReader"
          [] OTHER -> "AudioReader"]

Document(text, metadata) == [text |-> text, metadata |-> metadata]

get_metadata(file) == [source |-> file]

\* load_file of each reader: raw is what the extraction library returns, a
\* sequence of unit texts (pages, paragraphs, the OCR text, the transcript).
load_file(cls, file, raw) ==
    CASE cls = "PDFReader" ->
            [i \in 1..Len(raw) |->
                Document(raw[i], [page_label |-> i, source |-> file])]
      [] cls = "AudioReader" ->
            [i \in 1..Len(raw) |->
                Document(raw[i], [source |-> file, language |-> "en"])]
      [] OTHER ->
            [i \in 1..Len(raw) |-> Document(raw[i], [source |-> file])]

\* FileBaseReader.__init__: page_separator or '\n'
init_page_separator(sep) == IF sep = <<>> THEN <<NL>> ELSE sep

\* the for loop of load under single_text_per_document
RECURSIVE mergeFrom(_, _, _)
mergeFrom(docs, i, text) ==
    IF i > Len(docs) THEN text
    ELSE mergeFrom(docs, i + 1,
            IF firstAlphaIsUppercase(docs[i].text)
            THEN text \o <<NL, NL, SP>> \o docs[i].text
            ELSE text \o <<SP>> \o docs[i].text)

\* FileBaseReader.load, given the documents load_file returned
load(file, loaded, single_text_per_document, page_separator) ==
    LET docs == SelectSeq(loaded, LAMBDA d : strip(d.text) # <<>>)
    IN  IF single_text_per_document
        THEN << Document(mergeFrom(docs, 1, <<>>), get_metadata(file)) >>
        ELSE docs


\* -------------------------------------------------------------------- paths
MkPath(dirs, name, suffix) == [dirs |-> dirs, name |-> name, suffix |-> suffix]

\* pathlib.Path(f): "." components are dropped, nothing else is resolved
Path(f) == [f EXCEPT !.dirs = SelectSeq(f.dirs, LAMBDA c : c # ".")]

\* the file system the calls run against
RegularFiles ==
    { MkPath(<<"d1">>, "a", ".pdf"),
      MkPath(<<"d1", "sub">>, "b", ".jpg"),
      MkPath(<<"d1", "sub">>, "e", ".pdf"),
      MkPath(<<"d2">>, "c", ".png"),
      MkPath(<<"d2">>, "n", ".txt") }

\* os.path.isfile(f)
isfile(f) == Path(f) \in RegularFiles

\* the strings a caller passes in input_files: the regular files (one of
\* them spelled in two ways), a directory and a path that does not exist
EntryUniverse ==
    << MkPath(<<"d1">>, "a", ".pdf"),
       MkPath(<<"d1", "sub">>, "b", ".jpg"),
       MkPath(<<"d1", "sub">>, "e", ".pdf"),
       MkPath(<<"d2">>, "c", ".png"),
       MkPath(<<".", "d2">>, "c", ".png"),
       MkPath(<<"d2">>, "n", ".txt"),
       MkPath(<<>>, "d1", ""),
       MkPath(<<"d1">>, "z", ".pdf") >>

DirUniverse == << <<"d1">>, <<"d1", "sub">> >>

IsPrefix(p, s) == Len(p) <= Len(s) /\ SubSeq(s, 1, Len(p)) = p

\* pyrecdp.core.path_utils.get_files with the default glob and filters
get_files(input_dir, recursive) ==
    { f \in RegularFiles :
        IF recursive THEN IsPrefix(input_dir, f.dirs) ELSE f.dirs = input_dir }

SeqsUpTo(S, n) == UNION { [1..k -> S] : k \in 0..n }

\* the lists of at most n entries of universe, one list per multiset of
\* entries: both input lists are only iterated into a set (lines 236-253)
ListsUpTo(universe, n) ==
    { [i \in DOMAIN f |-> universe[f[i]]] :
        f \in { g \in SeqsUpTo(DOMAIN universe, n) :
                  \A i, j \in DOMAIN g : i <= j => g[i] <= g[j] } }

Range(s) == { s[i] : i \in DOMAIN s }

\* list(set(xs)): the elements once each, in an order the caller cannot choose
Orderings(S) ==
    { s \in [1..Cardinality(S) -> S] : \A i, j \in DOMAIN s : s[i] = s[j] => i = j }

\* input_dirs is None, one str, or a list of str
NoDirs == [kind |-> "none", v |-> <<>>]
StrDir(d) == [kind |-> "str", v |-> <<d>>]
ListDirs(ds) == [kind |-> "list", v |-> ds]

\* collect_files when the explicit files do not shadow the directories
collect_files_and_dirs(input_files_, input_dirs_, recursive_) ==
    [error |-> input_files_ = <<>> /\ input_dirs_.kind = "none",
     files |-> { Path(input_files_[i]) :
                   i \in { j \in DOMAIN input_files_ : isfile(input_files_[j]) } }
               \cup UNION { get_files(input_dirs_.v[i], recursive_) :
                              i \in DOMAIN input_dirs_.v },
     traversed |-> Range(input_dirs_.v)]

\* lines 235-251: the files collected before deduplication, and the
\* directories traversed for them; error is set when iterating None
collect_files(input_files_, input_dirs_, recursive_) ==
    IF input_files_ # <<>>
    THEN [error |-> FALSE,
          files |-> { Path(input_files_[i]) :
                        i \in { j \in DOMAIN input_files_ : isfile(input_files_[j]) } },
          traversed |-> {}]
    ELSE IF input_dirs_.kind = "none"
    THEN [error |-> TRUE, files |-> {}, traversed |-> {}]
    ELSE [error |-> FALSE,
          files |-> UNION { get_files(input_dirs_.v[i], recursive_) :
                              i \in DOMAIN input_dirs_.v },
          traversed |-> Range(input_dirs_.v)]

\* reader_exts when only the first file's extension is looked at
reader_exts_first_only(files) == { files[1].suffix }

\* install_reader_requirements: the extensions whose reader is set up
reader_exts(files) == { files[i].suffix : i \in DOMAIN files }

\* FileBaseReader.setup: os.system's exit status is dropped, so a package
\* apt-get could not install is only missing afterwards
setup_missing(cls, aptFailed) ==
    { system_requirements(cls)[i] :
        i \in { j \in DOMAIN system_requirements(cls) : aptFailed } }

\* pyrecdp.core.import_utils.check_availability_and_install
check_availability_and_install(installable) ==
    IF installable THEN "ok" ELSE "EnvironmentSetupError"

\* ThreadPoolExecutor(max_workers): max_concurrency None is written 0 here and
\* stands for min(32, cpu_count + 4), which is 5 on a single core
max_workers(max_concurrency_) ==
    IF max_concurrency_ = 0 THEN 1 + 4 ELSE max_concurrency_

\* ---------------------------------------------------------------- read_file
\* what the libraries outside this file can do with one file
RawChoices(cls) ==
    IF cls \in {"ImageReader", "AudioReader"}
    THEN { << <<SP>> >>, << <<"A", "b">> >> }
    ELSE { <<>>, << <<SP, SP>> >>, << <<"A", "b">>, <<"b">> >> }

CustomChoices(file) ==
    { <<>>, << Document(<<"b">>, [source |-> file]) >> }

Pending == [state |-> "pending", exc |-> FALSE, docs |-> <<>>, via |-> "none", n |-> 0]

\* read_file when the registry lookup of an unregistered suffix raises
read_file_lookup_raises(file, loaders_, raises, raw, custom) ==
    IF file.suffix \in loaders_
    THEN [exc |-> raises, docs |-> IF raises THEN <<>> ELSE custom, via |-> "custom"]
    ELSE IF file.suffix \in DOMAIN default_file_readers
    THEN LET cls == default_file_readers[file.suffix]
         IN  [exc |-> raises,
              docs |-> IF raises THEN <<>>
                       ELSE load(file, load_file(cls, file, raw), TRUE,
                                 init_page_separator(<<NL>>)),
              via |-> cls]
    ELSE [exc |-> TRUE, docs |-> <<>>, via |-> "unsupported"]

\* read_file when the registry is consulted before the custom loaders
read_file_registry_first(file, loaders_, raises, raw, custom) ==
    IF file.suffix \in DOMAIN default_file_readers
    THEN LET cls == default_file_readers[file.suffix]
         IN  [exc |-> raises,
              docs |-> IF raises THEN <<>>
                       ELSE load(file, load_file(cls, file, <<>>), TRUE,
                                 init_page_separator(<<NL>>)),
              via |-> cls]
    ELSE IF file.suffix \in loaders_
    THEN [exc |-> raises, docs |-> IF raises THEN <<>> ELSE custom, via |-> "custom"]
    ELSE [exc |-> FALSE, docs |-> <<>>, via |-> "unsupported"]

\* the body of read_file for one file: raises says whether the loader or
\* the reader raised, raw and custom are what they return otherwise
read_file(file, loaders_, raises, raw, custom) ==
    IF file.suffix \in loaders_
    THEN [exc |-> raises, docs |-> IF raises THEN <<>> ELSE custom, via |-> "custom"]
    ELSE IF file.suffix \in DOMAIN default_file_readers
    THEN LET cls == default_file_readers[file.suffix]
         IN  [exc |-> raises,
              docs |-> IF raises THEN <<>>
                       ELSE load(file, load_file(cls, file, raw), TRUE,
                                 init_page_separator(<<NL>>)),
              via |-> cls]
    ELSE [exc |-> FALSE, docs |-> <<>>, via |-> "unsupported"]

\* {'text': d.text, 'metadata': d.metadata}
to_dict(d) == [text |-> d.text, metadata |-> d.metadata]


\* ------------------------------------------------------------------- state
VARIABLES
    input_dirs, input_files, recursive, max_concurrency, loaders,  \* arguments
    pc,             \* where read_from_directory is
    files_to_read,  \* the resolved file list
    traversed,      \* directories handed to get_files
    file_exts,      \* extensions install_reader_requirements has still to visit
    setup_calls,    \* per reader class, how often setup() ran
    missing,        \* system packages whose installation failed
    futures,        \* per file, the future executor.map submitted
    pbar,           \* the tqdm counter, 0-1 before it exists
    pos,            \* index of the future the result iterator waits for
    acc,            \* the list the comprehension has built so far
    result,         \* how the call ended
    ld              \* one call of FileBaseReader.load (load specification)

args == <<input_dirs, input_files, recursive, max_concurrency, loaders>>
run == <<pc, files_to_read, traversed, file_exts, setup_calls, missing,
         futures, pbar, pos, acc, result>>
vars == <<args, run, ld>>

NoPbar == [exists |-> FALSE, total |-> 0, n |-> 0, closed |-> FALSE]
NoResult == [kind |-> "none", value |-> <<>>, error |-> "none"]
Returned(v) == [kind |-> "returned", value |-> v, error |-> "none"]
Raised(e) == [kind |-> "raised", value |-> <<>>, error |-> e]
IdleLoad == [pc |-> "idle"]

\* the calls: explicit files (with or without directories beside them), or
\* directories only, or neither
Calls ==
    { [input_files |-> fs, input_dirs |-> ds, recursive |-> FALSE] :
        fs \in ListsUpTo(EntryUniverse, MaxInputFiles) \ {<<>>},
        ds \in {NoDirs, ListDirs(<< <<"d1">> >>)} }
    \cup
    { [input_files |-> <<>>, input_dirs |-> ds, recursive |-> r] :
        ds \in {NoDirs} \cup { StrDir(d) : d \in Range(DirUniverse) }
               \cup { ListDirs(l) : l \in ListsUpTo(DirUniverse, MaxDirs) },
        r \in BOOLEAN }

LoaderChoices == { {}, {".pdf", ".txt"} }

RunInit ==
    /\ pc = "start"
    /\ files_to_read = <<>>
    /\ traversed = {}
    /\ file_exts = {}
    /\ setup_calls = [c \in Classes |-> 0]
    /\ missing = {}
    /\ futures = <<>>
    /\ pbar = NoPbar
    /\ pos = 1
    /\ acc = <<>>
    /\ result = NoResult

Init ==
    /\ \E c \in Calls :
        /\ input_files = c.input_files
        /\ input_dirs = c.input_dirs
        /\ recursive = c.recursive
    /\ max_concurrency \in 0..MaxWorkers
    /\ loaders \in LoaderChoices
    /\ RunInit
    /\ ld = IdleLoad

\* lines 235-256: resolve, deduplicate, return [] when nothing is left
Resolve ==
    /\ pc = "start"
    /\ LET c == collect_files(input_files, input_dirs, recursive)
       IN  /\ traversed' = c.traversed
           /\ IF c.error
              THEN /\ files_to_read' = <<>>
                   /\ pc' = "done"
                   /\ result' = Raised("TypeError")
                   /\ file_exts' = {}
              ELSE /\ files_to_read' \in Orderings(c.files)
                   /\ IF c.files = {}
                      THEN pc' = "done" /\ result' = Returned(<<>>) /\ file_exts' = {}
                      ELSE /\ pc' = "install"
                           /\ result' = result
                           /\ file_exts' = reader_exts(files_to_read')
    /\ UNCHANGED <<args, setup_calls, missing, futures, pbar, pos, acc, ld>>

\* lines 263-265 for an extension with a registered reader: cls.setup()
SetupReader(ext) ==
    /\ pc = "install"
    /\ ext \in file_exts
    /\ ext \in DOMAIN default_file_readers
    /\ LET cls == default_file_readers[ext]
       IN  \E aptFailed, installable \in BOOLEAN :
            /\ setup_calls' = [setup_calls EXCEPT ![cls] = @ + 1]
            /\ missing' = missing \cup setup_missing(cls, aptFailed)
            /\ IF check_availability_and_install(installable) = "ok"
               THEN file_exts' = file_exts \ {ext} /\ UNCHANGED <<pc, result>>
               ELSE /\ file_exts' = {}
                    /\ pc' = "done"
                    /\ result' = Raised("EnvironmentSetupError")
    /\ UNCHANGED <<args, files_to_read, traversed, futures, pbar, pos, acc, ld>>

\* lines 263-264 for an extension without a registered reader
SkipExt(ext) ==
    /\ pc = "install"
    /\ ext \in file_exts
    /\ ext \notin DOMAIN default_file_readers
    /\ file_exts' = file_exts \ {ext}
    /\ UNCHANGED <<args, pc, files_to_read, traversed, setup_calls, missing,
                   futures, pbar, pos, acc, result, ld>>

\* StartPool when the pool is started without waiting for the installation
StartPool_before_install ==
    /\ pc = "install"
    /\ pbar' = [exists |-> TRUE, total |-> Len(files_to_read), n |-> 0, closed |-> FALSE]
    /\ futures' = [i \in DOMAIN files_to_read |-> Pending]
    /\ pc' = "map"
    /\ UNCHANGED <<args, files_to_read, traversed, file_exts, setup_calls, missing,
                   pos, acc, result, ld>>

\* lines 271-277: the progress bar, the pool, and map submitting every file
StartPool ==
    /\ pc = "install"
    /\ file_exts = {}
    /\ pbar' = [exists |-> TRUE, total |-> Len(files_to_read), n |-> 0, closed |-> FALSE]
    /\ futures' = [i \in DOMAIN files_to_read |-> Pending]
    /\ pc' = "map"
    /\ UNCHANGED <<args, files_to_read, traversed, file_exts, setup_calls, missing,
                   pos, acc, result, ld>>

Running == { i \in DOMAIN futures : futures[i].state = "running" }
Queued == { i \in DOMAIN futures : futures[i].state = "pending" }

\* a worker takes the head of the work queue; a cancelled item is dropped
\* when taken, so the head that runs is the first future still pending
StartTask(i) ==
    /\ pc \in {"map", "exit"}
    /\ i \in Queued
    /\ \A j \in Queued : i <= j
    /\ Cardinality(Running) < max_workers(max_concurrency)
    /\ futures' = [futures EXCEPT ![i].state = "running"]
    /\ UNCHANGED <<args, pc, files_to_read, traversed, file_exts, setup_calls,
                   missing, pbar, pos, acc, result, ld>>

\* lines 216-233 in a worker: read_file and its finally, then the future is set
Finish(i, r) ==
    /\ futures' = [futures EXCEPT ![i] =
                      [state |-> "finished", exc |-> r.exc, docs |-> r.docs,
                       via |-> r.via, n |-> @.n + 1]]
    /\ pbar' = [pbar EXCEPT !.n = @ + 1]
    /\ UNCHANGED <<args, pc, files_to_read, traversed, file_exts, setup_calls,
                   missing, pos, acc, result, ld>>

ReadCustom(i) ==
    /\ i \in Running
    /\ files_to_read[i].suffix \in loaders
    /\ \/ Finish(i, read_file(files_to_read[i], loaders, TRUE, <<>>, <<>>))
       \/ \E custom \in CustomChoices(files_to_read[i]) :
            Finish(i, read_file(files_to_read[i], loaders, FALSE, <<>>, custom))

ReadDefault(i) ==
    /\ i \in Running
    /\ files_to_read[i].suffix \notin loaders
    /\ files_to_read[i].suffix \in DOMAIN default_file_readers
    /\ \/ Finish(i, read_file(files_to_read[i], loaders, TRUE, <<>>, <<>>))
       \/ \E raw \in RawChoices(default_file_readers[files_to_read[i].suffix]) :
            Finish(i, read_file(files_to_read[i], loaders, FALSE, raw, <<>>))

ReadUnsupported(i) ==
    /\ i \in Running
    /\ files_to_read[i].suffix \notin loaders
    /\ files_to_read[i].suffix \notin DOMAIN default_file_readers
    /\ Finish(i, read_file(files_to_read[i], loaders, FALSE, <<>>, <<>>))

\* the comprehension takes the next result of executor.map
Collect ==
    /\ pc = "map"
    /\ pos \in DOMAIN futures
    /\ futures[pos].state = "finished"
    /\ ~futures[pos].exc
    /\ acc' = acc \o [k \in DOMAIN futures[pos].docs |-> to_dict(futures[pos].docs[k])]
    /\ pos' = pos + 1
    /\ UNCHANGED <<args, pc, files_to_read, traversed, file_exts, setup_calls,
                   missing, futures, pbar, result, ld>>

\* the next result is an exception: result_iterator's finally cancels every
\* future not yet taken by a worker, and the exception leaves the comprehension
Propagate ==
    /\ pc = "map"
    /\ pos \in DOMAIN futures
    /\ futures[pos].state = "finished"
    /\ futures[pos].exc
    /\ futures' = [i \in DOMAIN futures |->
                      IF futures[i].state = "pending"
                      THEN [futures[i] EXCEPT !.state = "cancelled"]
                      ELSE futures[i]]
    /\ result' = Raised("FileError")
    /\ pc' = "exit"
    /\ UNCHANGED <<args, files_to_read, traversed, file_exts, setup_calls,
                   missing, pbar, pos, acc, ld>>

\* every result was taken: the comprehension is complete
MapDone ==
    /\ pc = "map"
    /\ pos > Len(futures)
    /\ result' = Returned(acc)
    /\ pc' = "exit"
    /\ UNCHANGED <<args, files_to_read, traversed, file_exts, setup_calls,
                   missing, futures, pbar, pos, acc, ld>>

\* the with block's shutdown(wait=True) has joined the workers; pbar.close()
Shutdown ==
    /\ pc = "exit"
    /\ Running = {}
    /\ Queued = {}
    /\ pbar' = [pbar EXCEPT !.closed = TRUE]
    /\ pc' = "done"
    /\ UNCHANGED <<args, files_to_read, traversed, file_exts, setup_calls,
                   missing, futures, pos, acc, result, ld>>

Next ==
    \/ Resolve
    \/ \E ext \in file_exts : SetupReader(ext)
    \/ \E ext \in file_exts : SkipExt(ext)
    \/ StartPool
    \/ \E i \in DOMAIN futures : StartTask(i)
    \/ \E i \in DOMAIN futures : ReadCustom(i)
    \/ \E i \in DOMAIN futures : ReadDefault(i)
    \/ \E i \in DOMAIN futures : ReadUnsupported(i)
    \/ Collect
    \/ Propagate
    \/ MapDone
    \/ Shutdown

Spec == Init /\ [][Next]_vars


\* ------------------------------------------------- FileBaseReader.load alone
LoadFile == MkPath(<<"d1">>, "a", ".pdf")
Texts == SeqsUpTo(Chars, MaxLen)
SepChoices == { <<>>, <<SP>>, <<NL>> }

InitLoad ==
    /\ input_files = <<>>
    /\ input_dirs = NoDirs
    /\ recursive = FALSE
    /\ max_concurrency = 0
    /\ loaders = {}
    /\ RunInit
    /\ \E cls \in {"PDFReader", "DocxReader"}, raw \in SeqsUpTo(Texts, MaxUnits),
          single \in BOOLEAN, sep \in SepChoices :
        ld = [pc |-> "call", cls |-> cls, raw |-> raw, single |-> single,
              sep |-> sep, out |-> <<>>]

\* reader = cls(file, single, sep); reader.load()
LoadCall ==
    /\ ld.pc = "call"
    /\ ld' = [ld EXCEPT
                !.pc = "ret",
                !.out = load(LoadFile, load_file(ld.cls, LoadFile, ld.raw),
                             ld.single, init_page_separator(ld.sep))]
    /\ UNCHANGED <<args, run>>

NextLoad == LoadCall

SpecLoad == InitLoad /\ [][NextLoad]_vars


\* ------------------------------------------------------------------ claims
Registered(f) == f.suffix \in DOMAIN default_file_readers
Unsupported(f) == f.suffix \notin loaders /\ ~Registered(f)
Dispatched == pbar.exists
Ended == pc = "done"
Raisers == { i \in DOMAIN futures : futures[i].exc }
Records(i) == { to_dict(futures[i].docs[k]) : k \in DOMAIN futures[i].docs }
Blank(text) == strip(text) = <<>>

\* C1: when exactly one file of the resolved set raises and every other file
\* was read, the call still returns, and its result holds the Records of all
\* the other files.
C1_PerFileIsolation ==
    ( /\ Ended
      /\ Dispatched
      /\ Len(files_to_read) >= 2
      /\ Cardinality(Raisers) = 1
      /\ \A i \in DOMAIN futures : futures[i].state = "finished"
      /\ \E i \in DOMAIN futures : futures[i].docs # <<>> )
    => /\ result.kind = "returned"
       /\ \A i \in DOMAIN futures \ Raisers : Records(i) \subseteq Range(result.value)

\* C2: once dispatch has begun, by the time the call has returned or raised the
\* progress counter was advanced exactly once for every file of the resolved
\* set, so its final value is the number of files.
C2_ProgressCompletes ==
    (Ended /\ Dispatched)
    => /\ pbar.n = Len(files_to_read)
       /\ \A i \in DOMAIN futures : futures[i].n = 1

C4_InstallFailureSurfaces ==
    /\ \A i \in DOMAIN futures :
         futures[i].via \in Classes
         => Range(system_requirements(futures[i].via)) \cap missing = {}
    /\ (Ended /\ missing # {}) => result.kind = "raised"

\* C5: no Record that a registered reader contributed to the returned
\* collection has an empty or whitespace-only text.
C5_NoBlankRecord ==
    (Ended /\ result.kind = "returned")
    => \A k \in DOMAIN result.value :
         result.value[k].metadata.source.suffix \notin loaders
         => ~Blank(result.value[k].text)

\* C6: a file with neither a custom loader nor a registered reader, once read,
\* has produced no Record and no exception and has advanced the progress
\* counter once; it is never the file whose exception ends the call; and a
\* call that returns holds no Record of it and every Record of the other files.
C6_UnsupportedIsNoOp ==
    \A i \in DOMAIN futures :
      Unsupported(files_to_read[i])
      => /\ futures[i].state = "finished"
            => ~futures[i].exc /\ futures[i].docs = <<>> /\ futures[i].n = 1
         /\ (pc \in {"exit", "done"} /\ result.kind = "raised") => pos # i
         /\ (Ended /\ result.kind = "returned")
            => /\ futures[i].n = 1
               /\ \A k \in DOMAIN result.value :
                    result.value[k].metadata.source # files_to_read[i]
               /\ \A j \in DOMAIN futures : Records(j) \subseteq Range(result.value)

\* C6 witness: a returned call that read an unsupported file and also holds
\* the Record of another file.
C6_Witness ==
    /\ Ended
    /\ result.kind = "returned"
    /\ \E i, j \in DOMAIN futures :
         /\ Unsupported(files_to_read[i])
         /\ futures[i].state = "finished"
         /\ futures[j].docs # <<>>
         /\ Records(j) \subseteq Range(result.value)

\* C7 as claimed: a file covered by a custom loader is read by that loader
\* only, and the registered reader of its extension is not even set up unless
\* a file without custom loader needs the same reader.
C7_CustomLoaderOnly ==
    \A i \in DOMAIN futures :
      files_to_read[i].suffix \in loaders
      => /\ futures[i].state = "finished" => futures[i].via = "custom"
         /\ ( /\ Registered(files_to_read[i])
              /\ ~\E j \in DOMAIN files_to_read :
                    /\ files_to_read[j].suffix \notin loaders
                    /\ Registered(files_to_read[j])
                    /\ default_file_readers[files_to_read[j].suffix]
                         = default_file_readers[files_to_read[i].suffix] )
            => setup_calls[default_file_readers[files_to_read[i].suffix]] = 0

\* C7 amended: during dispatch a file covered by a custom loader is read by
\* that loader only (no registered reader is instantiated or loaded for it);
\* the setup of the reader registered for its extension has run all the same.
C7_CustomLoaderPrecedence ==
    \A i \in DOMAIN futures :
      files_to_read[i].suffix \in loaders
      => /\ futures[i].state = "finished" => futures[i].via = "custom"
         /\ Registered(files_to_read[i])
            => setup_calls[default_file_readers[files_to_read[i].suffix]] >= 1

\* C7 witness: a file whose extension has both a custom loader and a
\* registered reader was read, by the custom loader, and gave a Record.
C7_Witness ==
    \E i \in DOMAIN futures :
      /\ files_to_read[i].suffix \in loaders
      /\ Registered(files_to_read[i])
      /\ futures[i].state = "finished"
      /\ futures[i].via = "custom"
      /\ futures[i].docs # <<>>

\* C9: with input_dirs and a non-empty input_files both given, the resolved
\* list holds exactly the input_files entries that are regular files, each
\* path once, and no directory was traversed.
C9_ExplicitFilesPrecedence ==
    (pc # "start" /\ input_files # <<>> /\ input_dirs.kind # "none")
    => /\ Range(files_to_read) =
            { Path(f) : f \in { g \in Range(input_files) : isfile(g) } }
       /\ Cardinality(Range(files_to_read)) = Len(files_to_read)
       /\ traversed = {}
       /\ DOMAIN futures \subseteq DOMAIN files_to_read

\* C9 witness: two different spellings of one regular file beside a directory
\* that holds more files; the call read that one file and returned.
C9_Witness ==
    /\ Ended
    /\ result.kind = "returned"
    /\ input_dirs.kind = "list"
    /\ Len(input_files) = 2
    /\ input_files[1] # input_files[2]
    /\ Len(files_to_read) = 1
    /\ Len(result.value) = 1
    /\ get_files(input_dirs.v[1], recursive) \ Range(files_to_read) # {}

\* C10: a worker runs a registered reader only after the installation phase
\* is over and that reader's setup has run; and an empty resolved file set
\* ends the call with an empty result, no setup and no pool.
C10_SetupBeforeDispatch ==
    /\ \A i \in DOMAIN futures :
         ( /\ futures[i].state \in {"running", "finished"}
           /\ files_to_read[i].suffix \notin loaders
           /\ Registered(files_to_read[i]) )
         => /\ pc \notin {"start", "install"}
            /\ file_exts = {}
            /\ setup_calls[default_file_readers[files_to_read[i].suffix]] >= 1
    /\ ( /\ pc # "start"
         /\ files_to_read = <<>>
         /\ ~collect_files(input_files, input_dirs, recursive).error )
       => /\ result = Returned(<<>>)
          /\ Ended
          /\ \A cls \in Classes : setup_calls[cls] = 0
          /\ ~pbar.exists
          /\ futures = <<>>

\* C10 witness: two files of different reader classes were both loaded by
\* their readers.
C10_Witness ==
    \E i, j \in DOMAIN futures :
      /\ futures[i].state = "finished"
      /\ futures[j].state = "finished"
      /\ futures[i].via \in Classes
      /\ futures[j].via \in Classes
      /\ futures[i].via # futures[j].via

\* the merge as the documentation of page_separator has it
RECURSIVE separatorMerge(_, _, _, _)
separatorMerge(texts, sep, i, text) ==
    IF i > Len(texts) THEN text
    ELSE separatorMerge(texts, sep, i + 1,
            IF firstAlphaIsUppercase(texts[i])
            THEN text \o <<NL, NL>> \o sep \o texts[i]
            ELSE text \o sep \o texts[i])

\* C8: with single_text_per_document, load of units none of which is blank
\* returns one Record, with metadata {source}, whose text joins the units in
\* order: two newlines, page_separator and the unit when its first letter is
\* uppercase, page_separator and the unit otherwise.
C8_MergeUsesPageSeparator ==
    ( /\ ld.pc = "ret"
      /\ ld.single
      /\ \A i \in DOMAIN ld.raw : ~Blank(ld.raw[i]) )
    => ld.out = << Document(separatorMerge(ld.raw, init_page_separator(ld.sep), 1, <<>>),
                            [source |-> LoadFile]) >>

====
